---- MODULE Spec2Model ----
(***************************************************************************)
(* Frame scheduler, swapchain recreation and event loop of vulkan-winit.   *)
(*                                                                         *)
(* Vulkan (src/src/util/vulkano/vulkano_utils.rs) is modelled by its       *)
(* fields swapchain, viewport, command_buffers, fences and previous_fence; *)
(* App (src/src/util/winit/app.rs) by resized and recreate_swapchain.      *)
(* The presentation engine and the GPU are the environment: they choose    *)
(* the acquired image, the result of every fallible call, the number of    *)
(* images of a swapchain and the moment a fence signals.                   *)
(*                                                                         *)
(* Rust indices are 0-based; At(s, i) reads the element a Rust s[i] reads. *)
(*                                                                         *)
(* A definition X_Suffix placed before X is X as a plausible slip in that *)
(* code would have it; the properties below are shown to depend on X by    *)
(* failing when X is replaced by it.                                       *)
(***************************************************************************)
EXTENDS Integers, Sequences, FiniteSets, TLC

\* ------------------------------------------------------------------ bounds
\* Redraw-requested ticks the event loop handles in a run.
MaxFrames == 3
\* Largest number of images a swapchain is created with.
MaxImages == 2
\* Largest coordinate (in absolute value) of a rectangle's corner argument.
MaxCoord == 1
\* Largest width and height argument of a rectangle.
MaxSize == 2
\* Longest vertex list handed to the triangle constructor.
MaxVerts == 4
\* Longest shape list handed to initialize.
MaxShapes == 2
\* Recording passes after the first one (recreate_swapchain calls) in a run.
MaxPasses == 2
\* Longest list of surface formats a device reports.
MaxFormats == 3

VARIABLES
    swapchain,        \* Vulkan.swapchain: [gen, images, extent]
    viewport,         \* Vulkan.viewport.extent
    command_buffers,  \* Vulkan.command_buffers: one record per framebuffer
    fences,           \* Vulkan.fences: 0 is None, f > 0 is Some(fence f)
    previous_fence,   \* Vulkan.previous_fence
    resized,          \* App.resized
    app_recreate,     \* App.recreate_swapchain
    pc,               \* position of the event loop: idle, acquire, drain, chain
    status,           \* running, panicked (a Rust panic), exited (event_loop.exit)
    image_i,          \* redraw's local image_i
    recreate_local,   \* redraw's local recreate_swapchain
    lastAcq,          \* result of the acquisition of the current/last redraw
    lastSubmit,       \* result of the submission chain of the current/last redraw
    waited,           \* whether the current/last redraw waited on a fence in Drain
    chainDep,         \* fence the current/last submission was chained on (0: now)
    lastExec,         \* command buffer the current/last redraw handed to then_execute
    chain,            \* the steps of the current/last redraw's future chain, in order
    prevImage,        \* image of the last redraw that went through Commit, -1: none yet
    fenceObjs,        \* every FenceFuture created: [image, gen, dep, signaled]
    ticks,            \* redraw-requested events handled
    logged,           \* whether the current/last redraw printed "failed to flush future"
    recreated,        \* whether the current/last tick ran recreate_swapchain
    shape,            \* a Shape built through the shape API (NoShape: none yet)
    shapeArgs,        \* the arguments of the constructor call that built it
    elements,         \* Vulkan.elements (before initialize: its elements argument)
    recorded,         \* the command lists the last get_command_buffers call built
    vbuffers,         \* every vertex buffer allocated: [shape, data, pass]
    passes,           \* get_command_buffers calls made
    surface,          \* what the device reports: [formats, min_image_count]
    allow_tearing,    \* initialize's argument
    create_info,      \* the swapchain's SwapchainCreateInfo, NoInfo before creation
    samples,          \* initialize's argument (multisample_state.rasterization_samples)
    multisampled_image, \* the view create_multisampled_image last returned
    attachments,      \* the attachments of the framebuffers last built, per image
    descriptor_sets,  \* every DescriptorSet created: [input_color]
    bphase            \* off, start (elements chosen), ready (initialized), panicked

mainVars == <<swapchain, viewport, command_buffers, fences, previous_fence, resized,
              app_recreate, pc, status, image_i, recreate_local, lastAcq,
              lastSubmit, waited, chainDep, lastExec, chain, prevImage,
              logged, fenceObjs, ticks, recreated>>

shapeVars == <<shape, shapeArgs>>

recordVars == <<elements, recorded, vbuffers, passes, surface, allow_tearing,
               create_info, samples, multisampled_image, attachments,
               descriptor_sets, bphase>>

\* What the event loop and the frame scheduler never touch.
otherVars == <<shapeVars, recordVars>>

vars == <<mainVars, otherVars>>

\* ----------------------------------------------------------------- helpers
At(s, i) == s[i + 1]

InRange(s, i) == i >= 0 /\ i < Len(s)

SetAt(s, i, v) == [s EXCEPT ![i + 1] = v]

\* Pixel extents a window can report (winit's inner_size), width and height:
\* an empty one and two different non-empty ones.
Extents == {<<0, 1>>, <<1, 1>>, <<2, 1>>}

Area(e) == e[1] * e[2]

ImageCounts == 1..MaxImages

NoCmd == [gen |-> 0, image |-> 0, extent |-> <<0, 0>>]

\* -------------------------------------------------------------------- shapes
\* A Shape is [kind, vertices, color, descriptor_set, vertex_buffer]; the two
\* Option fields hold 0 for None and the resource's id for Some. Coordinates
\* are integers here; the code adds f32 values.
NoShape == [kind |-> "none"]

Coords == (0 - MaxCoord)..MaxCoord

Sizes == 0..MaxSize

Red == <<1, 0, 0, 1>>

Green == <<0, 1, 0, 1>>

Colors == {Red, Green}

\* Vertex lists a caller may hand to the triangle constructor.
VertexLists == UNION {[1..n -> {<<0, 0>>, <<1, 1>>}] : n \in 0..MaxVerts}

\* Triangle::new (and Shape::new_triangle, which wraps it).
Triangle_new_Truncated(vertices, color) ==
    [kind |-> "Triangle", vertices |-> SubSeq(vertices, 1, 3), color |-> color,
     descriptor_set |-> 0, vertex_buffer |-> 0]

Triangle_new(vertices, color) ==
    [kind |-> "Triangle", vertices |-> vertices, color |-> color,
     descriptor_set |-> 0, vertex_buffer |-> 0]

\* Rectangle::new (and Shape::new_rectangle, which wraps it).
Rectangle_new_WrongCorner(x, y, width, height, color) ==
    [kind |-> "Rectangle",
     vertices |-> << <<x, y>>, <<x, y + height>>, <<x + width, y>>,
                     <<x, y + height>>, <<x + width, y + width>>, <<x + width, y>> >>,
     color |-> color, descriptor_set |-> 0, vertex_buffer |-> 0]

Rectangle_new(x, y, width, height, color) ==
    [kind |-> "Rectangle",
     vertices |-> << <<x, y>>, <<x, y + height>>, <<x + width, y>>,
                     <<x, y + height>>, <<x + width, y + height>>, <<x + width, y>> >>,
     color |-> color, descriptor_set |-> 0, vertex_buffer |-> 0]

\* ------------------------------------------------- swapchain and recording
\* get_framebuffers: one framebuffer per swapchain image, in image order,
\* each holding the view of that image (of the swapchain that owns it).
get_framebuffers(sc) ==
    [k \in 1..sc.images |-> [gen |-> sc.gen, image |-> k - 1, extent |-> sc.extent]]

\* get_command_buffers: one command buffer per framebuffer, in order, its
\* render pass begun on that framebuffer.
get_command_buffers(framebuffers) ==
    [k \in 1..Len(framebuffers) |-> framebuffers[k]]

\* Swapchain::recreate with image_extent = new_dimensions and the rest of
\* create_info kept: a new generation whose number of images the
\* presentation engine chooses.
NewSwapchain(old, dims, n) ==
    [gen |-> old.gen + 1, images |-> n, extent |-> dims]

\* --------------------------------------------------------------- swapchain
\* preferred_formats, in its order.
PreferredFormats ==
    <<"R5G6B5_UNORM_PACK16", "A1R5G5B5_UNORM_PACK16", "B4G4R4A4_UNORM_PACK16",
      "R8G8B8_UNORM", "B8G8R8_UNORM", "R8G8B8A8_UNORM", "B8G8R8A8_UNORM",
      "R8G8B8A8_SRGB", "B8G8R8A8_SRGB">>

\* Whether the reported (format, color space) pairs hold the format.
Reports(available_formats, format) ==
    \E i \in 1..Len(available_formats) : available_formats[i][1] = format

\* The loop of choose_memory_efficient_format from the p-th preferred format on,
\* and the fallback after it. The list is not empty.
RECURSIVE ChooseFrom(_, _)
ChooseFrom(available_formats, p) ==
    IF p > Len(PreferredFormats) THEN available_formats[1][1]
    ELSE IF Reports(available_formats, PreferredFormats[p]) THEN PreferredFormats[p]
    ELSE ChooseFrom(available_formats, p + 1)

\* The first reported format that is a preferred one.
RECURSIVE FirstReportedPreferred(_, _)
FirstReportedPreferred(available_formats, i) ==
    IF i > Len(available_formats) THEN available_formats[1][1]
    ELSE IF \E p \in 1..Len(PreferredFormats) :
                PreferredFormats[p] = available_formats[i][1]
         THEN available_formats[i][1]
    ELSE FirstReportedPreferred(available_formats, i + 1)

choose_memory_efficient_format_ReportedOrder(available_formats) ==
    FirstReportedPreferred(available_formats, 1)

choose_memory_efficient_format(available_formats) ==
    ChooseFrom(available_formats, 1)

\* present_mode: if allow_tearing { Immediate } else { Fifo }.
PresentModeFor_AlwaysFifo(tearing) == "Fifo"

PresentModeFor(tearing) == IF tearing THEN "Immediate" ELSE "Fifo"

\* The SwapchainCreateInfo of create_swapchain.
create_swapchain(caps, dimensions, tearing) ==
    [min_image_count |-> caps.min_image_count,
     image_format |-> choose_memory_efficient_format(caps.formats),
     image_extent |-> dimensions,
     present_mode |-> PresentModeFor(tearing)]

\* SwapchainCreateInfo { image_extent: new_dimensions, ..self.swapchain.create_info() }.
RecreateInfo_NewDefaults(info, new_dimensions) ==
    [min_image_count |-> 2,
     image_format |-> "UNDEFINED",
     image_extent |-> new_dimensions,
     present_mode |-> "Fifo"]

RecreateInfo(info, new_dimensions) == [info EXCEPT !.image_extent = new_dimensions]

NoInfo == [present_mode |-> "none"]

\* Formats a device may report, two of them preferred ones, and the lists.
ReportedFormats ==
    {"R5G6B5_UNORM_PACK16", "B8G8R8A8_UNORM",
     "R16G16B16A16_SFLOAT", "A2B10G10R10_UNORM_PACK32"}

FormatLists ==
    UNION {[1..n -> {<<f, "SrgbNonLinear">> : f \in ReportedFormats}] : n \in 0..MaxFormats}

\* SampleCount values a caller may pass: Sample1 and Sample4.
SampleCounts == {1, 4}

\* No image view yet.
NoImage == [kind |-> "none"]

\* create_multisampled_image: the view of a new transient color image of the
\* given extent, format and sample count.
create_multisampled_image(extent, format, n) ==
    [kind |-> "transient", extent |-> extent, format |-> format, samples |-> n]

\* ImageView::new_default(image) of a swapchain image.
ImageView_new_default(sc, i) == [kind |-> "swapchain", gen |-> sc.gen, image |-> i]

\* get_framebuffers: the attachments of the framebuffer of every image.
FramebufferAttachments(sc, multisampled) ==
    [k \in 1..sc.images |-> <<multisampled, ImageView_new_default(sc, k - 1)>>]

DefaultSurface ==
    [formats |-> << <<"B8G8R8A8_UNORM", "SrgbNonLinear">> >>, min_image_count |-> 1]

\* --------------------------------------------------------------- recording
\* Shape::get_vertex_buffer / update_vertex_buffer / get_descriptor_set /
\* update_descriptor_set, on either variant.
update_vertex_buffer_DropsSet(e, vb) ==
    [e EXCEPT !.vertex_buffer = vb, !.descriptor_set = 0]

update_vertex_buffer(e, vb) == [e EXCEPT !.vertex_buffer = vb]

\* initialize's color_buffer and DescriptorSet::new for one shape: a uniform
\* buffer holding the shape's color, written at binding 0.
DescriptorSet_new(e) == [input_color |-> e.color]

update_descriptor_set_Dropped(e, ds) == e

update_descriptor_set(e, ds) == [e EXCEPT !.descriptor_set = ds]

\* The clear colour (0.1, 0.1, 0.1, 1.0), in tenths.
ClearColor == <<1, 1, 1, 10>>

\* get_pipeline: the pipeline of a generation, with its one viewport.
get_pipeline(sc, vp) == [gen |-> sc.gen, viewport |-> vp]

\* The commands get_command_buffers records.
BeginRenderPass(fb) == [op |-> "begin_render_pass", fb |-> fb, clear |-> ClearColor]

BindPipeline(p) == [op |-> "bind_pipeline_graphics", pipeline |-> p]

BindDescriptorSets(ds) == [op |-> "bind_descriptor_sets", set |-> 0, ds |-> ds]

BindVertexBuffers(vb) == [op |-> "bind_vertex_buffers", binding |-> 0, vb |-> vb]

Draw(n) ==
    [op |-> "draw", vertex_count |-> n, instance_count |-> 1,
     first_vertex |-> 0, first_instance |-> 0]

EndRenderPass == [op |-> "end_render_pass"]

\* The three commands of one shape: descriptor set at set 0, vertex buffer at
\* binding 0, a draw of as many vertices as the buffer holds.
ShapeCommands_ThreeVertices(ds, vb, len) ==
    <<BindDescriptorSets(ds), BindVertexBuffers(vb), Draw(3)>>

ShapeCommands(ds, vb, len) ==
    <<BindDescriptorSets(ds), BindVertexBuffers(vb), Draw(len)>>

\* `match element.get_vertex_buffer() { Some(_) => {}, None => ... }`: whether
\* the shape needs a vertex buffer allocated.
NeedsVertexBuffer_Always(e) == TRUE

NeedsVertexBuffer(e) == e.vertex_buffer = 0

\* The body of `for element in elements.iter_mut()`: st is the recording so
\* far, [els, bufs, cmds, cbs, pass, ok]; ok turns FALSE where
\* get_descriptor_set().unwrap() meets a shape without descriptor set.
RecordShape(st, j) ==
    LET e == st.els[j]
        alloc == NeedsVertexBuffer(e)
        bufs2 == IF alloc
                 THEN Append(st.bufs, [shape |-> j, data |-> e.vertices,
                                       pass |-> st.pass])
                 ELSE st.bufs
        vb == IF alloc THEN Len(bufs2) ELSE e.vertex_buffer
        els2 == IF alloc THEN [st.els EXCEPT ![j] = update_vertex_buffer(e, vb)]
                ELSE st.els
    IN [st EXCEPT !.els = els2,
                  !.bufs = bufs2,
                  !.ok = st.ok /\ e.descriptor_set # 0,
                  !.cmds = st.cmds \o
                           ShapeCommands(e.descriptor_set, vb, Len(bufs2[vb].data))]

\* The shapes in the order of the vector.
RECURSIVE RecordShapes(_, _)
RecordShapes(st, j) ==
    IF j > Len(st.els) THEN st ELSE RecordShapes(RecordShape(st, j), j + 1)

\* The closure of framebuffers.iter().map(..): one command buffer.
RecordFramebuffer(st, fb, pipeline) ==
    LET s0 == [st EXCEPT !.cmds = <<BeginRenderPass(fb), BindPipeline(pipeline)>>]
        s1 == RecordShapes(s0, 1)
    IN [s1 EXCEPT !.cbs = Append(s1.cbs, s1.cmds \o <<EndRenderPass>>)]

RECURSIVE RecordFramebuffers(_, _, _, _)
RecordFramebuffers(st, framebuffers, k, pipeline) ==
    IF k > Len(framebuffers) THEN st
    ELSE RecordFramebuffers(RecordFramebuffer(st, framebuffers[k], pipeline),
                            framebuffers, k + 1, pipeline)

\* get_command_buffers with its elements argument (a Vec<Shape> taken by
\* value) and the vertex buffers allocated so far: the command lists, the
\* callee's own copy of the shapes as it ends, and the buffers.
record_command_buffers(framebuffers, pipeline, els, bufs, pass) ==
    RecordFramebuffers([els |-> els, bufs |-> bufs, cmds |-> <<>>, cbs |-> <<>>,
                        pass |-> pass, ok |-> TRUE],
                       framebuffers, 1, pipeline)

\* What the caller's vector is after get_command_buffers(.., elements.clone(), ..):
\* the callee worked on the clone.
ElementsAfterRecording(own, callee) == own

\* Shapes the shape lists of a run are made of, and the lists.
SampleShapes ==
    {Triangle_new(<< <<0, 0>>, <<1, 1>>, <<1, 0>> >>, Red),
     Triangle_new(<< <<0, 0>>, <<1, 1>>, <<1, 0>> >>, Green),
     Triangle_new(<< <<0, 0>>, <<1, 1>>, <<1, 0>>, <<0, 1>> >>, Green),
     Rectangle_new(0, 0, 1, 2, Red)}

ShapeLists == UNION {[1..n -> SampleShapes] : n \in 0..MaxShapes}

\* ----------------------------------------------------------- frame scheduler
\* Drain (redraw, `if let Some(image_fence) = &self.fences[image_i]` and
\* image_fence.wait(None)): the wait returns once the fence has signaled;
\* an empty slot is not waited on.
DrainMayProceed_NoWait(fs, i, objs) == TRUE

DrainMayProceed_EmptySlotOnly(fs, i, objs) == At(fs, i) = 0

DrainMayProceed_AllSlots(fs, i, objs) ==
    \A k \in 1..Len(fs) : IF fs[k] = 0 THEN TRUE ELSE objs[fs[k]].signaled

DrainMayProceed(fs, i, objs) ==
    IF At(fs, i) = 0 THEN TRUE ELSE objs[At(fs, i)].signaled

\* Chain: the future chain redraw builds, step by step: the dependency joined
\* with the acquisition, the command buffer of the acquired image, its
\* present, then_signal_fence_and_flush.
ChainSteps(dep, i, cb) ==
    <<[op |-> "join", dep |-> dep, acquired |-> i],
      [op |-> "then_execute", cb |-> cb],
      [op |-> "then_swapchain_present", image |-> i],
      [op |-> "then_signal_fence_and_flush"]>>

\* Drain: image_fence.wait(None).unwrap() when the wait returns an error.
WaitFailure_Ignored == "running"

WaitFailure == "panicked"

\* Chain: self.command_buffers[image_i as usize], the argument of then_execute.
CommandBufferFor_First(cbs, i) == At(cbs, 0)

CommandBufferFor(cbs, i) == At(cbs, i)

\* Chain: the dependency is the fence in the slot of the previously submitted
\* image; an empty slot gives sync::now (0).
PreviousFuture_Acquired(fs, prev, i) == At(fs, i)

PreviousFuture(fs, prev, i) == At(fs, prev)

\* Commit: the value the match on the flushed future stores in slot image_i.
CommitFences_KeepOnOutOfDate(fs, i, outcome, f) ==
    IF outcome = "ok" THEN SetAt(fs, i, f)
    ELSE IF outcome = "outofdate" THEN fs
    ELSE SetAt(fs, i, 0)

CommitFences_PreviousSlot(fs, i, outcome, f) ==
    SetAt(fs, 0, IF outcome = "ok" THEN f ELSE 0)

CommitFences_KeepOnFailure(fs, i, outcome, f) ==
    IF outcome = "ok" THEN SetAt(fs, i, f) ELSE fs

CommitFences(fs, i, outcome, f) ==
    SetAt(fs, i, IF outcome = "ok" THEN f ELSE 0)

\* redraw's result after the match on the flushed future.
ReturnValue_IgnoreFlush(flag, outcome) == flag

ReturnValue_DropSuboptimal(flag, outcome) == outcome = "outofdate"

ReturnValue(flag, outcome) == flag \/ outcome = "outofdate"

\* redraw's result when acquire_next_image reports OutOfDate.
OutOfDateReturn_False == FALSE

OutOfDateReturn == TRUE

\* ---------------------------------------------------------------- event loop
\* RedrawRequested: `if self.resized || self.recreate_swapchain`.
NeedsRecreate_ResizedOnly(r, f) == r

NeedsRecreate_Always(r, f) == TRUE

NeedsRecreate(r, f) == r \/ f

\* recreate_swapchain: self.fences as it leaves it, with n images in the new
\* swapchain: no statement of it assigns the field.
RecreatedFences_Resized(fs, n) == [k \in 1..n |-> 0]

RecreatedFences_Cleared(fs, n) == [k \in 1..Len(fs) |-> 0]

RecreatedFences(fs, n) == fs

\* recreate_swapchain: the command buffers it leaves in self.command_buffers.
RecreatedCommandBuffers_Stale(old, sc) == old

RecreatedCommandBuffers(old, sc) == get_command_buffers(get_framebuffers(sc))

\* recreate_swapchain: self.viewport.extent = new_dimensions.
RecreatedViewport_Stale(old, dims) == old

RecreatedViewport(old, dims) == dims

\* -------------------------------------------------------------------- Init
\* The state Vulkan::initialize and App::resumed leave: a swapchain of n
\* images at the window's (non-empty) size, one command buffer per image,
\* n empty fence slots, previous_fence 0; App's flags at their defaults.
InitScheduler ==
    /\ \E n \in ImageCounts, e \in {x \in Extents : Area(x) > 0} :
          /\ swapchain = [gen |-> 1, images |-> n, extent |-> e]
          /\ viewport = e
          /\ fences = [k \in 1..n |-> 0]
    /\ command_buffers = get_command_buffers(get_framebuffers(swapchain))
    /\ previous_fence = 0
    /\ resized = FALSE
    /\ app_recreate = FALSE
    /\ pc = "idle"
    /\ status = "running"
    /\ image_i = 0
    /\ recreate_local = FALSE
    /\ lastAcq = "none"
    /\ lastSubmit = "none"
    /\ waited = FALSE
    /\ chainDep = 0
    /\ lastExec = NoCmd
    /\ chain = <<>>
    /\ prevImage = -1
    /\ fenceObjs = <<>>
    /\ ticks = 0
    /\ logged = FALSE
    /\ recreated = FALSE

Init ==
    /\ InitScheduler
    /\ shape = NoShape
    /\ shapeArgs = <<>>
    /\ elements = <<>>
    /\ recorded = <<>>
    /\ vbuffers = <<>>
    /\ passes = 0
    /\ surface = DefaultSurface
    /\ allow_tearing = FALSE
    /\ create_info = NoInfo
    /\ samples = 4
    /\ multisampled_image = NoImage
    /\ attachments = <<>>
    /\ descriptor_sets = <<>>
    /\ bphase = "off"

vulkanVars == <<swapchain, viewport, command_buffers, fences, previous_fence>>
frameVars == <<image_i, recreate_local, lastAcq, lastSubmit, waited, chainDep,
               lastExec, chain, logged>>
gpuVars == <<fenceObjs>>

\* ----------------------------------------------------------------- actions
\* WindowEvent::Resized(size). App.size, which the handler also assigns, is read
\* nowhere (recreate_swapchain asks the window for its inner_size) and is not
\* part of the state.
Resized ==
    /\ UNCHANGED otherVars
    /\ status = "running" /\ pc = "idle"
    /\ resized' = TRUE
    /\ UNCHANGED <<vulkanVars, frameVars, gpuVars, app_recreate, pc, status,
                   ticks, recreated,
                   prevImage>>

\* WindowEvent::CloseRequested: event_loop.exit().
CloseRequested ==
    /\ UNCHANGED otherVars
    /\ status = "running" /\ pc = "idle"
    /\ status' = "exited"
    /\ UNCHANGED <<vulkanVars, frameVars, gpuVars, resized, app_recreate,
                   pc, ticks, recreated,
                   prevImage>>

\* The fresh locals of a redraw call.
EnterRedraw ==
    /\ image_i' = 0
    /\ recreate_local' = FALSE
    /\ lastAcq' = "none"
    /\ lastSubmit' = "none"
    /\ waited' = FALSE
    /\ chainDep' = 0
    /\ lastExec' = NoCmd
    /\ chain' = <<>>
    /\ logged' = FALSE

\* WindowEvent::RedrawRequested, up to redraw's call of acquire_next_image:
\* recreate_swapchain when a resize was notified or the last redraw asked
\* for it, then redraw. recreate_swapchain either completes, or panics in
\* Swapchain::recreate (nothing assigned yet), or panics in a later step
\* (self.swapchain already assigned).
RedrawRequested ==
    /\ UNCHANGED otherVars
    /\ status = "running" /\ pc = "idle"
    /\ ticks < MaxFrames
    /\ ticks' = ticks + 1
    /\ EnterRedraw
    /\ UNCHANGED <<previous_fence, app_recreate, gpuVars, prevImage>>
    /\ IF NeedsRecreate(resized, app_recreate)
       THEN /\ resized' = FALSE
            /\ recreated' = TRUE
            /\ \E dims \in Extents, n \in ImageCounts,
                  res \in {"ok", "swapchain_err", "later_err"} :
                 CASE res = "ok" ->
                        /\ swapchain' = NewSwapchain(swapchain, dims, n)
                        /\ fences' = RecreatedFences(fences, n)
                        /\ viewport' = RecreatedViewport(viewport, dims)
                        /\ command_buffers' =
                             RecreatedCommandBuffers(command_buffers, swapchain')
                        /\ pc' = "acquire"
                        /\ status' = status
                   [] res = "swapchain_err" ->
                        /\ UNCHANGED <<swapchain, fences, viewport,
                                       command_buffers, pc>>
                        /\ status' = "panicked"
                   [] res = "later_err" ->
                        /\ swapchain' = NewSwapchain(swapchain, dims, n)
                        /\ UNCHANGED <<fences, viewport, command_buffers, pc>>
                        /\ status' = "panicked"
       ELSE /\ recreated' = FALSE
            /\ pc' = "acquire"
            /\ UNCHANGED <<swapchain, fences, viewport, command_buffers,
                           resized, status>>

\* Acquire: swapchain::acquire_next_image(swapchain, None). The presentation
\* engine answers with an image of the current swapchain and the suboptimal
\* flag, with OutOfDate, or with another error (a panic).
AcquireOk ==
    /\ UNCHANGED otherVars
    /\ status = "running" /\ pc = "acquire"
    /\ \E i \in 0..(swapchain.images - 1), suboptimal \in BOOLEAN :
          /\ image_i' = i
          /\ recreate_local' = suboptimal
          /\ lastAcq' = IF suboptimal THEN "suboptimal" ELSE "ok"
    /\ pc' = "drain"
    /\ UNCHANGED <<vulkanVars, gpuVars, resized, app_recreate, status,
                   lastSubmit, waited, chainDep, lastExec, logged, ticks,
                   recreated,
                   chain, prevImage>>

AcquireOutOfDate ==
    /\ UNCHANGED otherVars
    /\ status = "running" /\ pc = "acquire"
    /\ lastAcq' = "outofdate"
    /\ app_recreate' = OutOfDateReturn
    /\ pc' = "idle"
    /\ UNCHANGED <<vulkanVars, gpuVars, resized, status, image_i,
                   recreate_local, lastSubmit, waited, chainDep, lastExec, logged,
                   ticks, recreated,
                   chain, prevImage>>

AcquireError ==
    /\ UNCHANGED otherVars
    /\ status = "running" /\ pc = "acquire"
    /\ lastAcq' = "error"
    /\ status' = "panicked"
    /\ UNCHANGED <<vulkanVars, gpuVars, resized, app_recreate, pc, image_i,
                   recreate_local, lastSubmit, waited, chainDep, lastExec, logged,
                   ticks, recreated,
                   chain, prevImage>>

\* Drain: self.fences[image_i] panics when image_i is no index of the
\* vector; a fence in the slot is waited on with no timeout.
DrainOutOfBounds ==
    /\ UNCHANGED otherVars
    /\ status = "running" /\ pc = "drain"
    /\ ~InRange(fences, image_i)
    /\ status' = "panicked"
    /\ UNCHANGED <<vulkanVars, frameVars, gpuVars, resized, app_recreate,
                   pc, ticks, recreated,
                   prevImage>>

Drain ==
    /\ UNCHANGED otherVars
    /\ status = "running" /\ pc = "drain"
    /\ InRange(fences, image_i)
    /\ DrainMayProceed(fences, image_i, fenceObjs)
    /\ waited' = (At(fences, image_i) # 0)
    /\ pc' = "chain"
    /\ UNCHANGED <<vulkanVars, resized, app_recreate, status, image_i,
                   recreate_local, lastAcq, lastSubmit, chainDep, lastExec,
                   logged, fenceObjs, ticks, recreated,
                   chain, prevImage>>

\* image_fence.wait(None).unwrap() on an error of the wait.
DrainWaitError ==
    /\ UNCHANGED otherVars
    /\ status = "running" /\ pc = "drain"
    /\ InRange(fences, image_i)
    /\ At(fences, image_i) # 0
    /\ waited' = TRUE
    /\ status' = WaitFailure
    /\ UNCHANGED <<vulkanVars, resized, app_recreate, pc, image_i,
                   recreate_local, lastAcq, lastSubmit, chainDep, lastExec,
                   logged, fenceObjs, ticks, recreated,
                   chain, prevImage>>

\* Chain, then_execute(...).unwrap() on an error of then_execute.
ChainExecuteError ==
    /\ UNCHANGED otherVars
    /\ status = "running" /\ pc = "chain"
    /\ chainDep' = PreviousFuture(fences, previous_fence, image_i)
    /\ lastExec' = CommandBufferFor(command_buffers, image_i)
    /\ chain' = SubSeq(ChainSteps(chainDep', image_i, lastExec'), 1, 2)
    /\ lastSubmit' = "execute_err"
    /\ status' = "panicked"
    /\ UNCHANGED <<vulkanVars, gpuVars, resized, app_recreate, pc, image_i,
                   recreate_local, lastAcq, waited, logged, ticks, recreated,
                   prevImage>>

\* Chain and Commit: join, execute, present, then_signal_fence_and_flush and
\* the match on its result: a new fence, OutOfDate, or another error.
ChainCommit ==
    /\ UNCHANGED otherVars
    /\ status = "running" /\ pc = "chain"
    /\ \E outcome \in {"ok", "outofdate", "other_err"} :
          /\ lastSubmit' = outcome
          /\ chainDep' = PreviousFuture(fences, previous_fence, image_i)
          /\ lastExec' = CommandBufferFor(command_buffers, image_i)
          /\ chain' = ChainSteps(chainDep', image_i, lastExec')
          /\ fenceObjs' =
               IF outcome = "ok"
               THEN Append(fenceObjs, [image |-> image_i, gen |-> swapchain.gen,
                                       dep |-> chainDep', signaled |-> FALSE])
               ELSE fenceObjs
          /\ fences' = CommitFences(fences, image_i, outcome, Len(fenceObjs) + 1)
          /\ logged' = (outcome = "other_err")
          /\ app_recreate' = ReturnValue(recreate_local, outcome)
    /\ previous_fence' = image_i
    /\ prevImage' = image_i
    /\ pc' = "idle"
    /\ UNCHANGED <<swapchain, viewport, command_buffers, resized, status,
                   image_i, recreate_local, lastAcq, waited, ticks, recreated>>

\* The GPU finishes the work a fence covers, after the work it was chained on.
GpuComplete ==
    /\ UNCHANGED otherVars
    /\ status = "running"
    /\ \E f \in 1..Len(fenceObjs) :
          /\ ~fenceObjs[f].signaled
          /\ IF fenceObjs[f].dep = 0 THEN TRUE
                ELSE fenceObjs[fenceObjs[f].dep].signaled
          /\ fenceObjs' = [fenceObjs EXCEPT ![f].signaled = TRUE]
    /\ UNCHANGED <<vulkanVars, frameVars, resized, app_recreate, pc, status,
                   ticks, recreated,
                   prevImage>>

Next ==
    \/ Resized
    \/ CloseRequested
    \/ RedrawRequested
    \/ AcquireOk
    \/ AcquireOutOfDate
    \/ AcquireError
    \/ DrainOutOfBounds
    \/ Drain
    \/ DrainWaitError
    \/ ChainExecuteError
    \/ ChainCommit
    \/ GpuComplete

Spec == Init /\ [][Next]_vars

\* The frame loop where the environment keeps its side: the presentation
\* engine answers every acquisition one way or another, the GPU finishes
\* submitted work, a wait returns once its fence has signaled, and the thread
\* goes on from any point where it is not blocked.
Fairness ==
    /\ WF_vars(AcquireOk \/ AcquireOutOfDate \/ AcquireError)
    /\ WF_vars(GpuComplete)
    /\ WF_vars(Drain)
    /\ WF_vars(DrainOutOfBounds)
    /\ WF_vars(ChainCommit)

\* Runs of one redraw fewer.
RedrawRequestedLive == RedrawRequested /\ ticks' < MaxFrames

NextLive ==
    \/ Resized
    \/ CloseRequested
    \/ RedrawRequestedLive
    \/ AcquireOk
    \/ AcquireOutOfDate
    \/ AcquireError
    \/ DrainOutOfBounds
    \/ Drain
    \/ DrainWaitError
    \/ ChainExecuteError
    \/ ChainCommit
    \/ GpuComplete

SpecLive == Init /\ [][NextLive]_vars /\ Fairness

\* ------------------------------------------------------------ the shape API
\* Shape::new_triangle(vertices, color).
NewTriangle ==
    /\ shape = NoShape
    /\ \E vs \in VertexLists, c \in Colors :
          /\ shape' = Triangle_new(vs, c)
          /\ shapeArgs' = [vertices |-> vs, color |-> c]
    /\ UNCHANGED <<mainVars, recordVars>>

\* Shape::new_rectangle(x, y, width, height, color).
NewRectangle ==
    /\ shape = NoShape
    /\ \E x \in Coords, y \in Coords, w \in Sizes, h \in Sizes, c \in Colors :
          /\ shape' = Rectangle_new(x, y, w, h, c)
          /\ shapeArgs' = [x |-> x, y |-> y, width |-> w, height |-> h, color |-> c]
    /\ UNCHANGED <<mainVars, recordVars>>

\* Shape::update_vertex_buffer(vertex_buffer) on the shape built.
UpdateVertexBuffer ==
    /\ shape # NoShape
    /\ \E vb \in {1, 2} : shape' = update_vertex_buffer(shape, vb)
    /\ UNCHANGED <<shapeArgs, mainVars, recordVars>>

\* Shape::update_descriptor_set(descriptor_set) on the shape built.
UpdateDescriptorSet ==
    /\ shape # NoShape
    /\ \E ds \in {1, 2} : shape' = update_descriptor_set(shape, ds)
    /\ UNCHANGED <<shapeArgs, mainVars, recordVars>>

NextShape ==
    \/ NewTriangle
    \/ NewRectangle
    \/ UpdateVertexBuffer
    \/ UpdateDescriptorSet

\* The shape API alone: any sequence of constructor calls.
SpecShape == Init /\ [][NextShape]_vars

\* ------------------------------------------------ initialize and recreation
\* Before Vulkan::initialize: the caller's shape list; the device reports one
\* format and the caller does not allow tearing. The swapchain, viewport and
\* command buffers of InitScheduler are the ones initialize is about to make.
InitRecord ==
    /\ InitScheduler
    /\ shape = NoShape
    /\ shapeArgs = <<>>
    /\ elements \in ShapeLists
    /\ recorded = <<>>
    /\ vbuffers = <<>>
    /\ passes = 0
    /\ surface = DefaultSurface
    /\ allow_tearing = FALSE
    /\ create_info = NoInfo
    /\ samples \in SampleCounts
    /\ multisampled_image = NoImage
    /\ attachments = <<>>
    /\ descriptor_sets = <<>>
    /\ bphase = "start"

\* Before Vulkan::initialize: what the device reports and whether the caller
\* allows tearing; no shapes.
InitSwapchain ==
    /\ InitScheduler
    /\ shape = NoShape
    /\ shapeArgs = <<>>
    /\ elements = <<>>
    /\ recorded = <<>>
    /\ vbuffers = <<>>
    /\ passes = 0
    /\ surface \in [formats : FormatLists, min_image_count : 1..swapchain.images]
    /\ allow_tearing \in BOOLEAN
    /\ create_info = NoInfo
    /\ samples = 4
    /\ multisampled_image = NoImage
    /\ attachments = <<>>
    /\ descriptor_sets = <<>>
    /\ bphase = "start"

\* Vulkan::initialize: create_swapchain (which panics in
\* choose_memory_efficient_format when no format is reported), a descriptor
\* set for every shape, then the first get_command_buffers call, on a clone.
Initialize ==
    /\ bphase = "start"
    /\ IF surface.formats = <<>>
       THEN /\ bphase' = "panicked"
            /\ UNCHANGED <<elements, recorded, vbuffers, passes, create_info,
                           multisampled_image, attachments, descriptor_sets>>
       ELSE LET sets == [j \in 1..Len(elements) |-> DescriptorSet_new(elements[j])]
                withSets == [j \in 1..Len(elements) |->
                               update_descriptor_set(elements[j], j)]
                r == record_command_buffers(get_framebuffers(swapchain),
                                            get_pipeline(swapchain, viewport),
                                            withSets, vbuffers, 1)
            IN /\ create_info' = create_swapchain(surface, swapchain.extent,
                                                  allow_tearing)
               /\ multisampled_image' =
                    create_multisampled_image(swapchain.extent,
                                              create_info'.image_format, samples)
               /\ attachments' =
                    FramebufferAttachments(swapchain, multisampled_image')
               /\ descriptor_sets' = descriptor_sets \o sets
               /\ elements' = ElementsAfterRecording(withSets, r.els)
               /\ recorded' = r.cbs
               /\ vbuffers' = r.bufs
               /\ passes' = 1
               /\ bphase' = IF r.ok THEN "ready" ELSE "panicked"
    /\ UNCHANGED <<mainVars, shapeVars, surface, allow_tearing, samples>>

\* Vulkan::recreate_swapchain, all steps succeeding: the new swapchain from
\* the old one's create info with the new extent, the viewport, the pipeline,
\* and get_command_buffers on a clone of self.elements.
RecreateSwapchain ==
    /\ bphase = "ready"
    /\ passes <= MaxPasses
    /\ \E dims \in Extents, n \in ImageCounts :
          /\ n >= create_info.min_image_count
          /\ create_info' = RecreateInfo(create_info, dims)
          /\ swapchain' = NewSwapchain(swapchain, dims, n)
          /\ multisampled_image' =
               create_multisampled_image(dims, create_info'.image_format, samples)
          /\ attachments' = FramebufferAttachments(swapchain', multisampled_image')
          /\ fences' = RecreatedFences(fences, n)
          /\ viewport' = RecreatedViewport(viewport, dims)
          /\ command_buffers' = RecreatedCommandBuffers(command_buffers, swapchain')
          /\ LET r == record_command_buffers(get_framebuffers(swapchain'),
                                             get_pipeline(swapchain', viewport'),
                                             elements, vbuffers, passes + 1)
             IN /\ elements' = ElementsAfterRecording(elements, r.els)
                /\ recorded' = r.cbs
                /\ vbuffers' = r.bufs
                /\ bphase' = IF r.ok THEN "ready" ELSE "panicked"
    /\ passes' = passes + 1
    /\ UNCHANGED <<previous_fence, resized, app_recreate, pc, status,
                   frameVars, gpuVars, ticks, recreated, shapeVars,
                   prevImage, surface, allow_tearing, samples, descriptor_sets>>

NextRecord ==
    \/ Initialize
    \/ RecreateSwapchain

\* Initialization and any sequence of recreations, without the frame loop.
SpecRecord == InitRecord /\ [][NextRecord]_vars

\* The same, over what the device reports and the tearing flag.
SpecSwapchain == InitSwapchain /\ [][NextRecord]_vars

\* ------------------------------------------------------------------ claims
Signaled(f) == fenceObjs[f].signaled

Slots == 0..(Len(fences) - 1)

\* C1: frame pacing. redraw reaches Chain (where it submits the command list
\* of image_i) only when slot image_i is empty or its fence has signaled, and
\* so at most one fence ever created for an image index is unsignaled:
\* submissions to one image index are serialized.
C1_FramePacing ==
    /\ (pc = "chain" /\ At(fences, image_i) # 0) => Signaled(At(fences, image_i))
    /\ \A f, g \in 1..Len(fenceObjs) :
          (f # g /\ fenceObjs[f].image = fenceObjs[g].image)
             => (Signaled(f) \/ Signaled(g))

\* A redraw that found slot image_i occupied, waited in Drain and is about to
\* submit to the same image again.
C1_Witness ==
    /\ pc = "chain" /\ status = "running"
    /\ waited
    /\ At(fences, image_i) # 0
    /\ fenceObjs[At(fences, image_i)].image = image_i

\* C2: the fence-slot array has exactly N entries, N the image count of the
\* current swapchain, after initialize and after every recreate, and redraw
\* indexes the fence array and the command buffers inside [0, N).
C2_FenceSlotsMatchImages ==
    status = "running" =>
       /\ Len(fences) = swapchain.images
       /\ (pc \in {"drain", "chain"} =>
              InRange(fences, image_i) /\ InRange(command_buffers, image_i))

\* C3: when acquisition reports out-of-date, redraw returns true at once:
\* no wait, no submission, no fence created, every slot and previous_fence
\* as they were, and no panic.
C3_AcquireOutOfDateAborts ==
    [][(pc = "acquire" /\ lastAcq' = "outofdate") =>
          /\ app_recreate' = TRUE
          /\ pc' = "idle"
          /\ status' = "running"
          /\ fences' = fences
          /\ previous_fence' = previous_fence
          /\ fenceObjs' = fenceObjs
          /\ waited' = FALSE
          /\ lastSubmit' = "none"
          /\ lastExec' = NoCmd]_vars

\* A redraw that aborted on out-of-date while a slot held a fence.
C3_Witness ==
    /\ pc = "idle" /\ status = "running"
    /\ lastAcq = "outofdate"
    /\ app_recreate
    /\ \E i \in Slots : At(fences, i) # 0

\* C4: after a suboptimal acquisition, the Chain step commits slot image_i,
\* records image_i as previous and returns true, whatever the submission did.
C4_SuboptimalRunsWholeFrame ==
    [][(pc = "chain" /\ lastAcq = "suboptimal" /\ lastSubmit' # "none") =>
          /\ status' = "running"
          /\ pc' = "idle"
          /\ app_recreate' = TRUE
          /\ previous_fence' = image_i
          /\ At(fences', image_i) =
                (IF lastSubmit' = "ok" THEN Len(fenceObjs') ELSE 0)]_vars

\* C5: a redraw whose chain flushed successfully stores the fence it created
\* in slot image_i, leaves every other slot alone and records image_i as the
\* most recently submitted frame.
C5_CommitOnSuccess ==
    [][(pc = "chain" /\ lastSubmit' = "ok") =>
          /\ Len(fenceObjs') = Len(fenceObjs) + 1
          /\ fenceObjs'[Len(fenceObjs')].image = image_i
          /\ ~fenceObjs'[Len(fenceObjs')].signaled
          /\ Len(fences') = Len(fences)
          /\ At(fences', image_i) = Len(fenceObjs')
          /\ \A j \in Slots : j # image_i => At(fences', j) = At(fences, j)
          /\ previous_fence' = image_i
          /\ pc' = "idle"]_vars

\* A successful redraw that replaced the fence of its slot while another
\* slot held a fence.
C5_Witness ==
    /\ pc = "idle" /\ status = "running"
    /\ lastSubmit = "ok"
    /\ waited
    /\ At(fences, image_i) = Len(fenceObjs)
    /\ \E j \in Slots : j # image_i /\ At(fences, j) # 0

\* C6: when the flush reports out-of-date, redraw empties slot image_i,
\* leaves the other slots alone, returns true and does not panic.
C6_CommitOutOfDate ==
    [][(pc = "chain" /\ lastSubmit' = "outofdate") =>
          /\ At(fences', image_i) = 0
          /\ Len(fences') = Len(fences)
          /\ \A j \in Slots : j # image_i => At(fences', j) = At(fences, j)
          /\ fenceObjs' = fenceObjs
          /\ app_recreate' = TRUE
          /\ status' = "running"
          /\ pc' = "idle"]_vars

\* An out-of-date flush, not after a suboptimal acquisition, that emptied a
\* slot which had held a fence.
C6_Witness ==
    /\ pc = "idle" /\ status = "running"
    /\ lastSubmit = "outofdate"
    /\ lastAcq = "ok"
    /\ waited
    /\ At(fences, image_i) = 0
    /\ app_recreate

\* C7: a failure of the submission other than out-of-date, at the execute,
\* present or flush step, does not panic: it is logged, slot image_i is left
\* empty and redraw returns what the acquisition alone decided.
C7_OtherFailureNonFatal ==
    [][(pc = "chain" /\ lastSubmit' \in {"execute_err", "other_err"}) =>
          /\ status' = "running"
          /\ logged'
          /\ At(fences', image_i) = 0
          /\ app_recreate' = recreate_local
          /\ pc' = "idle"]_vars

\* C8 as stated: a non-empty slot holds a fence that has not signaled and
\* belongs to the current swapchain generation.
C8_SlotOnlyWhileInFlight ==
    \A i \in Slots :
       At(fences, i) # 0 =>
          /\ ~Signaled(At(fences, i))
          /\ fenceObjs[At(fences, i)].gen = swapchain.gen

\* C8 as amended: a non-empty slot i holds the fence of the last successful
\* submission to image index i (no later fence was created for i), and a
\* redraw whose submission fails leaves its slot empty; the fence stays in
\* the slot after it signals and after a recreate.
C8_SlotHoldsLastSuccessfulFence ==
    /\ [](\A i \in Slots :
            At(fences, i) # 0 =>
               /\ fenceObjs[At(fences, i)].image = i
               /\ \A g \in 1..Len(fenceObjs) :
                     fenceObjs[g].image = i => g <= At(fences, i))
    /\ [][(pc = "chain" /\ pc' = "idle" /\ lastSubmit' # "ok") =>
             At(fences', image_i) = 0]_vars
    /\ [][(pc \notin {"chain"}) => fences' = fences]_vars

\* A running program whose slot holds a signaled fence of an earlier
\* swapchain generation.
C8_Witness ==
    /\ status = "running"
    /\ \E i \in Slots :
          /\ At(fences, i) # 0
          /\ Signaled(At(fences, i))
          /\ fenceObjs[At(fences, i)].gen < swapchain.gen

\* C9: a redraw that follows a redraw which returned true is preceded, in
\* the same tick, by recreate_swapchain.
C9_RecreateBeforeNextRedraw ==
    [][(pc = "idle" /\ pc' = "acquire" /\ app_recreate) =>
          (recreated' /\ swapchain'.gen = swapchain.gen + 1)]_vars

\* The second tick: the first redraw returned true, and the second starts
\* after a recreate_swapchain in its own tick.
C9_Witness ==
    /\ pc = "acquire" /\ status = "running"
    /\ app_recreate
    /\ recreated
    /\ swapchain.gen = 2
    /\ ticks = 2

\* C10: viewport and command buffers always belong to the current swapchain:
\* the viewport has its extent, there is one command buffer per image, the
\* k-th targets the framebuffer of image k of this generation, and the
\* command buffer a redraw executes is the one of the acquired image.
C10_RecreateFullReplacement ==
    status = "running" =>
       /\ viewport = swapchain.extent
       /\ Len(command_buffers) = swapchain.images
       /\ \A k \in 1..Len(command_buffers) :
             command_buffers[k] =
                [gen |-> swapchain.gen, image |-> k - 1, extent |-> swapchain.extent]
       /\ (lastExec # NoCmd =>
              /\ lastExec.gen = swapchain.gen
              /\ lastExec.image = image_i
              /\ lastExec.extent = viewport)

\* A redraw that executed a command buffer of a recreated swapchain with a
\* new extent and a new number of images.
C10_Witness ==
    /\ status = "running" /\ pc = "idle"
    /\ swapchain.gen = 2
    /\ swapchain.extent = <<2, 1>>
    /\ Len(fences) # swapchain.images
    /\ lastExec.gen = 2

\* C15: a triangle built through the shape API has exactly 3 vertices and a
\* rectangle exactly 6, whatever the constructor was given.
C15_VertexCountByKind ==
    /\ shape.kind = "Triangle" => Len(shape.vertices) = 3
    /\ shape.kind = "Rectangle" => Len(shape.vertices) = 6

\* C16: a rectangle's vertex list is (x,y), (x,y+height), (x+width,y),
\* (x,y+height), (x+width,y+height), (x+width,y): the two triangles share
\* (x,y+height) and (x+width,y), and the vertices are exactly the four
\* corners of (x,y)-(x+width,y+height).
C16_RectangleVertices ==
    shape.kind = "Rectangle" =>
       LET x == shapeArgs.x
           y == shapeArgs.y
           w == shapeArgs.width
           h == shapeArgs.height
           v == shape.vertices
       IN /\ v = << <<x, y>>, <<x, y + h>>, <<x + w, y>>,
                    <<x, y + h>>, <<x + w, y + h>>, <<x + w, y>> >>
          /\ {v[1], v[2], v[3]} \cap {v[4], v[5], v[6]} = {<<x, y + h>>, <<x + w, y>>}
          /\ {v[k] : k \in 1..6} = {<<a, b>> : a \in {x, x + w}, b \in {y, y + h}}

\* A rectangle of non-zero width and height that differ, away from the origin.
C16_Witness ==
    /\ shape.kind = "Rectangle"
    /\ shapeArgs.width = 2 /\ shapeArgs.height = 1
    /\ shapeArgs.x = 1 /\ shapeArgs.y = 0 - 1
    /\ Len(shape.vertices) = 6

\* The vertex buffer the k-th recorded command list binds for the j-th shape.
BoundBuffer(k, j) == recorded[k][3 * j + 1].vb

\* The vertex buffers allocated for the j-th shape by the p-th recording call.
AllocatedFor(j, p) ==
    {b \in 1..Len(vbuffers) : vbuffers[b].shape = j /\ vbuffers[b].pass = p}

\* C11: every recording pass yields one command list per swapchain image, and
\* each list is: begin the render pass on that image's framebuffer, bind the
\* pipeline, then for every shape in the order of the shape list bind its
\* descriptor set at set 0, bind its vertex buffer at binding 0 and issue one
\* non-indexed draw of one instance with as many vertices as the buffer holds,
\* then end the render pass; so a list over k shapes holds exactly k draws.
C11_RecordingOrder ==
    bphase = "ready" =>
        /\ Len(recorded) = swapchain.images
        /\ \A k \in 1..Len(recorded) :
              LET c == recorded[k]
                  n == Len(elements)
              IN /\ Len(c) = 3 * n + 3
                 /\ c[1] = BeginRenderPass(get_framebuffers(swapchain)[k])
                 /\ c[2] = BindPipeline(get_pipeline(swapchain, viewport))
                 /\ c[3 * n + 3] = EndRenderPass
                 /\ Cardinality({i \in 1..Len(c) : c[i].op = "draw"}) = n
                 /\ \A j \in 1..n :
                       /\ c[3 * j].op = "bind_descriptor_sets"
                       /\ c[3 * j].set = 0
                       /\ c[3 * j].ds = elements[j].descriptor_set
                       /\ c[3 * j + 1].op = "bind_vertex_buffers"
                       /\ c[3 * j + 1].binding = 0
                       /\ vbuffers[c[3 * j + 1].vb].data = elements[j].vertices
                       /\ c[3 * j + 2] = Draw(Len(vbuffers[c[3 * j + 1].vb].data))
                       /\ c[3 * j + 2].instance_count = 1

\* A red triangle then a green shape of another vertex count, recorded for two
\* images after a recreation: two draws in each list, red first.
C11_Witness ==
    /\ bphase = "ready"
    /\ passes > 1
    /\ Len(recorded) > 1
    /\ Len(elements) = 2
    /\ elements[1].color = Red
    /\ elements[2].color = Green
    /\ Len(elements[1].vertices) # Len(elements[2].vertices)
    /\ elements[recorded[2][3].ds].color = Red
    /\ elements[recorded[2][6].ds].color = Green
    /\ recorded[2][5].op = "draw"
    /\ recorded[2][8].op = "draw"

\* C12: over initialize and any number of recreations, no shape has more than
\* one vertex buffer allocated for it.
C12_VertexBufferAllocatedOnce ==
    \A j \in 1..Len(elements) :
        Cardinality({b \in 1..Len(vbuffers) : vbuffers[b].shape = j}) <= 1

\* C13: one recording call over N framebuffers allocates exactly one vertex
\* buffer for a shape that came in without one and none for a shape that came
\* in with one, whatever N is; all N command lists bind the same buffer for a
\* shape; and recording again over shapes that carry their buffers allocates
\* nothing and binds the same buffers.
C13_OneAllocationPerCall ==
    bphase = "ready" =>
        /\ \A j \in 1..Len(elements) :
              /\ Cardinality(AllocatedFor(j, passes))
                    = IF elements[j].vertex_buffer = 0 THEN 1 ELSE 0
              /\ \A k \in 1..Len(recorded) : BoundBuffer(k, j) = BoundBuffer(1, j)
        /\ LET attached == [j \in 1..Len(elements) |->
                              update_vertex_buffer(elements[j], BoundBuffer(1, j))]
               again == record_command_buffers(get_framebuffers(swapchain),
                                               get_pipeline(swapchain, viewport),
                                               attached, vbuffers, passes + 1)
           IN /\ again.bufs = vbuffers
              /\ again.cbs = recorded

\* Two shapes recorded for two framebuffers: each got one buffer in this call.
C13_Witness ==
    /\ bphase = "ready"
    /\ Len(recorded) > 1
    /\ Len(elements) = 2
    /\ \A j \in 1..2 : Cardinality(AllocatedFor(j, passes)) = 1
    /\ BoundBuffer(2, 2) = BoundBuffer(1, 2)

\* The fences of submitted frames that have not signaled yet.
InFlight == {f \in 1..Len(fenceObjs) : ~Signaled(f)}

\* C14: in every reachable state the number of submitted frames whose fence
\* has not signaled is at most the swapchain's image count.
C14_InFlightBound == Cardinality(InFlight) <= swapchain.images

\* C20: whenever redraw builds its chain, the dependency is the content of the
\* fence slot of the image of the previous redraw that went through Commit
\* (nothing, the already-complete dependency, when that slot is empty or there
\* was no such redraw), and the steps come in the order: join with the
\* acquisition, execute the acquired image's command buffer, present the
\* acquired image, signal-fence-and-flush; a panic in then_execute ends the
\* chain after its first two steps.
C20_ChainDependencyAndOrder ==
    [][(pc = "chain" /\ lastSubmit' # lastSubmit) =>
             /\ chainDep' = IF prevImage = -1 THEN 0 ELSE At(fences, prevImage)
             /\ chainDep' # 0 => fenceObjs[chainDep'].image = prevImage
             /\ chain'[1] = [op |-> "join", dep |-> chainDep', acquired |-> image_i]
             /\ chain'[2] = [op |-> "then_execute",
                             cb |-> At(command_buffers, image_i)]
             /\ IF lastSubmit' = "execute_err"
                THEN Len(chain') = 2
                ELSE /\ Len(chain') = 4
                     /\ chain'[3] = [op |-> "then_swapchain_present",
                                     image |-> image_i]
                     /\ chain'[4] = [op |-> "then_signal_fence_and_flush"]]_vars

\* A third submission, on an image other than the previous one: its dependency
\* is the previous image's fence, which is neither the acquired image's slot
\* nor the slot a ring over the submission count would name.
C20_Witness ==
    /\ pc = "idle" /\ lastSubmit = "ok"
    /\ Len(fenceObjs) = 3
    /\ Len(chain) = 4
    /\ chainDep # 0
    /\ chain[1].dep = chainDep
    /\ fenceObjs[chainDep].image # image_i
    /\ fenceObjs[chainDep].image # (Len(fenceObjs) - 2) % swapchain.images

\* The preferred formats among the reported ones, by their place in the list.
ReportedPreferred(available_formats) ==
    {p \in 1..Len(PreferredFormats) : Reports(available_formats, PreferredFormats[p])}

\* The list with its i-th and j-th entries exchanged.
Exchanged(l, i, j) == [l EXCEPT ![i] = l[j], ![j] = l[i]]

\* The least element of a non-empty set of numbers.
Least(S) == CHOOSE p \in S : \A q \in S : p <= q

\* C17: for a non-empty list of reported formats the swapchain's format is the
\* preferred format of least rank among those reported anywhere in the list,
\* whatever the order of the list (exchanging any two entries of the list
\* gives the same choice); when no preferred format is reported it is the first
\* reported format.
C17_FormatSelection ==
    create_info # NoInfo =>
        LET matches == ReportedPreferred(surface.formats)
        IN /\ Len(surface.formats) > 0
           /\ IF matches = {}
              THEN create_info.image_format = surface.formats[1][1]
              ELSE /\ create_info.image_format = PreferredFormats[Least(matches)]
                   /\ \A i, j \in 1..Len(surface.formats) :
                         choose_memory_efficient_format(
                             Exchanged(surface.formats, i, j))
                            = create_info.image_format

\* A device that reports a preferred format after a format that is not
\* preferred and after a preferred one of lower priority.
C17_Witness ==
    /\ create_info # NoInfo
    /\ Len(surface.formats) = 3
    /\ surface.formats[1][1] = "R16G16B16A16_SFLOAT"
    /\ surface.formats[2][1] = "B8G8R8A8_UNORM"
    /\ surface.formats[3][1] = "R5G6B5_UNORM_PACK16"
    /\ create_info.image_format = "R5G6B5_UNORM_PACK16"

\* C18: the swapchain's presentation mode is Immediate exactly when tearing
\* is allowed and Fifo otherwise, and after any number of recreations the
\* presentation mode, the format and the minimum image count are still the
\* ones chosen at creation.
C18_PresentModeAndKeptInfo ==
    create_info # NoInfo =>
        /\ create_info.present_mode = "Immediate" <=> allow_tearing
        /\ create_info.present_mode = "Fifo" <=> ~allow_tearing
        /\ create_info.image_format = choose_memory_efficient_format(surface.formats)
        /\ create_info.min_image_count = surface.min_image_count
        /\ create_info.image_extent = swapchain.extent

\* Tearing allowed, two images asked for, and the swapchain recreated twice.
C18_Witness ==
    /\ create_info # NoInfo
    /\ allow_tearing
    /\ swapchain.gen > 2
    /\ create_info.present_mode = "Immediate"
    /\ create_info.min_image_count = 2
    /\ create_info.image_format = "R5G6B5_UNORM_PACK16"

\* C21: no step of redraw, whatever its outcome, changes the swapchain (its
\* generation, extent and image count), the viewport extent, the command
\* buffers or the shape list; and the command buffer a redraw executes for
\* image i is entry i of the list built for the current swapchain by the last
\* initialize or recreate.
C21_RedrawKeepsGeneration ==
    [][(pc \in {"acquire", "drain", "chain"}) =>
          /\ swapchain' = swapchain
          /\ viewport' = viewport
          /\ command_buffers' = command_buffers
          /\ (lastExec' # lastExec =>
                (/\ lastExec' = At(get_command_buffers(get_framebuffers(swapchain)),
                                   image_i)
                 /\ lastExec' = At(command_buffers, image_i)))
          /\ elements' = elements]_vars

\* A redraw that ran to its end on the second image of a recreated swapchain.
C21_Witness ==
    /\ pc = "idle" /\ lastSubmit = "ok"
    /\ swapchain.gen > 1
    /\ image_i = 1
    /\ lastExec = At(command_buffers, 1)

\* C22: while the process runs, the command buffers and the viewport are the
\* ones of the current swapchain: a recreate that fails at any step ends the
\* process, so every step of a redraw finds all three of one generation.
C22_RecreateAllOrNothing ==
    /\ status = "running" =>
          /\ command_buffers = get_command_buffers(get_framebuffers(swapchain))
          /\ viewport = swapchain.extent
    /\ (\E k \in 1..Len(command_buffers) : command_buffers[k].gen # swapchain.gen)
          => status = "panicked" /\ pc = "idle"

\* A recreate that failed after the new swapchain was stored: the process is
\* over with the old command buffers.
C22_Witness ==
    /\ status = "panicked"
    /\ recreated
    /\ swapchain.gen = 2
    /\ command_buffers[1].gen = 1

\* C23: a failed wait on the acquired image's fence ends the process in Drain:
\* the step itself submits nothing and changes no fence slot, and nothing is
\* submitted and no slot changes afterwards.
C23_WaitFailureFatal ==
    /\ [][(pc = "drain" /\ pc' = "drain" /\ ~waited /\ waited') =>
             /\ status' = "panicked"
             /\ fences' = fences
             /\ fenceObjs' = fenceObjs
             /\ chain' = <<>> /\ lastSubmit' = "none"]_vars
    /\ [][(pc = "drain" /\ waited) =>
             /\ pc' = "drain"
             /\ fences' = fences
             /\ chain' = <<>> /\ lastSubmit' = "none"
             /\ Len(fenceObjs') = Len(fenceObjs)]_vars

\* The wait on a slot's fence failed.
C23_Witness ==
    /\ status = "panicked" /\ pc = "drain"
    /\ waited
    /\ At(fences, image_i) # 0
    /\ chain = <<>>

\* C24 as stated: every redraw that starts ends by going through Commit or by
\* returning the recreate signal, that is, back in the event loop.
C24_RedrawReturns == (pc = "acquire") ~> (pc = "idle")

\* C24: every redraw that starts comes to an end: back in the event loop
\* (through Commit or with the recreate signal after OutOfDate) or with the
\* process ended by a panic; past Drain nothing holds it up.
C24_RedrawEnds ==
    /\ (pc = "acquire") ~> (pc = "idle" \/ status = "panicked")
    /\ [](pc = "chain" /\ status = "running" => ENABLED ChainCommit)

\* A redraw that waited in Drain for the fence of its image and came back.
C24_Witness ==
    /\ pc = "idle" /\ lastSubmit = "ok"
    /\ waited
    /\ ticks > 1

\* C25: redraw waits for the fence of the acquired image's slot and for no
\* other: Drain goes on as soon as that slot is empty or its fence has
\* signaled, whatever the other slots hold, and a redraw whose flush
\* succeeded returns with its new fence stored unsignaled and every other
\* fence as it was. So frames of different images are in flight together.
C25_NoFullStall ==
    /\ [](pc = "drain" /\ status = "running" /\ InRange(fences, image_i)
             /\ (At(fences, image_i) = 0 \/ Signaled(At(fences, image_i)))
          => ENABLED Drain)
    /\ [][(pc = "chain" /\ lastSubmit' = "ok") =>
             /\ pc' = "idle"
             /\ At(fences', image_i) = Len(fenceObjs')
             /\ ~fenceObjs'[Len(fenceObjs')].signaled
             /\ SubSeq(fenceObjs', 1, Len(fenceObjs)) = fenceObjs]_vars

\* redraw is back, the fence it stored has not signaled, and the slot of
\* another image holds a fence that has not signaled either.
C25_Witness ==
    /\ pc = "idle" /\ status = "running" /\ lastSubmit = "ok"
    /\ swapchain.images >= 2
    /\ ~Signaled(At(fences, image_i))
    /\ \E j \in Slots \ {image_i} :
          At(fences, j) # 0 /\ ~Signaled(At(fences, j))

\* C26: after initialize and after every recreate, with a sample count above
\* 1 every framebuffer holds the transient multisample image and then the
\* view of its swapchain image; with a sample count of 1 no transient image
\* exists and every framebuffer holds the view of its swapchain image alone.
C26_MultisampleOptional ==
    bphase = "ready" =>
        /\ Len(attachments) = swapchain.images
        /\ IF samples > 1
           THEN /\ multisampled_image.kind = "transient"
                /\ multisampled_image.samples = samples
                /\ \A k \in 1..Len(attachments) :
                      attachments[k] = <<multisampled_image,
                                          ImageView_new_default(swapchain, k - 1)>>
           ELSE /\ multisampled_image = NoImage
                /\ \A k \in 1..Len(attachments) :
                      attachments[k] = <<ImageView_new_default(swapchain, k - 1)>>

\* C27: a shape of either kind is created with no vertex buffer and no
\* descriptor set; a step that changes its vertex buffer leaves its descriptor
\* set, color, vertex list and kind as they were, and a step that changes its
\* descriptor set leaves its vertex buffer, color, vertex list and kind as
\* they were.
C27_ShapeResources ==
    [][IF shape = NoShape
       THEN shape' # NoShape =>
               shape'.descriptor_set = 0 /\ shape'.vertex_buffer = 0
       ELSE /\ shape'.kind = shape.kind
            /\ shape'.color = shape.color
            /\ shape'.vertices = shape.vertices
            /\ shape'.vertex_buffer # shape.vertex_buffer =>
                  shape'.descriptor_set = shape.descriptor_set
            /\ shape'.descriptor_set # shape.descriptor_set =>
                  shape'.vertex_buffer = shape.vertex_buffer]_vars

\* A rectangle that had a descriptor set attached, then a vertex buffer.
C27_Witness ==
    /\ shape # NoShape
    /\ shape.kind = "Rectangle"
    /\ shape.descriptor_set = 1
    /\ shape.vertex_buffer = 2
    /\ Len(shape.vertices) = 6

\* C28: the descriptor set (color binding) of every shape is created exactly
\* once, by initialize and before the first recording pass: once initialized
\* there is one descriptor set per shape, holding that shape's color, and
\* every recorded command list binds it for the shape; no recreation creates a
\* descriptor set or changes the one a shape carries; and no recording pass
\* meets a shape without a descriptor set (which would panic).
C28_DescriptorSetOnce ==
    /\ [](/\ bphase # "panicked"
          /\ bphase = "start" => descriptor_sets = <<>> /\ passes = 0
          /\ bphase = "ready" =>
                /\ Len(descriptor_sets) = Len(elements)
                /\ \A j \in 1..Len(elements) :
                      /\ elements[j].descriptor_set = j
                      /\ descriptor_sets[j].input_color = elements[j].color
                      /\ \A k \in 1..Len(recorded) : recorded[k][3 * j].ds = j)
    /\ [][(bphase = "ready") =>
             /\ descriptor_sets' = descriptor_sets
             /\ \A j \in 1..Len(elements) :
                   elements'[j].descriptor_set = elements[j].descriptor_set]_vars

\* Two shapes of different colors, recorded again by a recreation with
\* another image count: still the two descriptor sets initialize created.
C28_Witness ==
    /\ bphase = "ready"
    /\ passes > 1
    /\ swapchain.gen > 1
    /\ Len(elements) = 2
    /\ elements[1].color # elements[2].color
    /\ Len(descriptor_sets) = 2
    /\ Len(recorded) = 2
    /\ recorded[2][6].ds = 2

\* C29: in every reachable state, also after a recreation that changed the
\* number of images, previous_fence is a valid index into the fence-slot
\* vector, so the lookup self.fences[previous_fence] of Chain is in range.
C29_PreviousFenceInRange ==
    /\ InRange(fences, previous_fence)
    /\ pc = "chain" => InRange(fences, image_i)

\* A redraw in Chain after a recreation to fewer images than the slot its
\* predecessor committed: previous_fence is not an image of the swapchain.
C29_Witness ==
    /\ status = "running"
    /\ pc = "chain"
    /\ recreated
    /\ previous_fence >= swapchain.images
    /\ Len(fences) > swapchain.images

\* C30: a redraw that has ended has returned true exactly when its
\* acquisition reported out-of-date or suboptimal or its submission chain
\* reported out-of-date; a redraw with a non-suboptimal acquisition and a
\* submission failure other than out-of-date has returned false.
C30_NeedsRecreateIff ==
    (lastAcq # "none" /\ (pc = "idle" \/ status = "panicked")) =>
        LET returned == pc = "idle" /\ status # "panicked"
        IN /\ (returned /\ app_recreate) <=>
                 (lastAcq \in {"outofdate", "suboptimal"} \/ lastSubmit = "outofdate")
           /\ (lastAcq = "ok" /\ lastSubmit \in {"execute_err", "other_err"}) =>
                 (returned /\ ~app_recreate)

\* C31: every redraw that got past Acquire ends with previous_fence equal to
\* the image it acquired, also when its submission failed and left the slot
\* empty, in which case the next redraw chains on no fence (a dependency
\* already complete) whatever the other slots hold; a redraw that aborts on
\* an out-of-date acquisition leaves previous_fence as it was.
C31_PreviousFenceSet ==
    [][/\ (pc \in {"drain", "chain"} /\ (pc' = "idle" \/ status' = "panicked")) =>
             previous_fence' = image_i
       /\ (pc = "acquire" /\ lastAcq' = "outofdate") =>
             previous_fence' = previous_fence
       /\ (pc = "chain" /\ lastSubmit' # "none"
             /\ At(fences, previous_fence) = 0) =>
             chainDep' = 0]_vars

\* C32: a recreation leaves the fence slots and previous_fence as they were,
\* so fences of the previous swapchain generation stay in their slots: the
\* first redraw after a recreation that acquires image i waits in Drain on
\* the fence slot i held before the recreation, a fence of an older
\* generation, and chains on the fence in slot previous_fence, whatever its
\* generation.
C32_RecreateKeepsFences ==
    /\ [][(pc = "idle" /\ recreated') =>
             /\ fences' = fences
             /\ previous_fence' = previous_fence]_vars
    /\ [][(pc = "drain" /\ pc' = "chain" /\ recreated
             /\ At(fences, image_i) # 0) =>
             /\ waited'
             /\ Signaled(At(fences, image_i))
             /\ fenceObjs[At(fences, image_i)].gen < swapchain.gen]_vars
    /\ [][(pc = "chain" /\ recreated /\ lastSubmit' # "none") =>
             chainDep' = At(fences, previous_fence)]_vars

\* The first redraw after a recreation has waited on a fence and submitted
\* work chained on a fence of the generation before.
C32_Witness ==
    /\ status = "running"
    /\ pc = "idle"
    /\ recreated
    /\ waited
    /\ lastSubmit = "ok"
    /\ chainDep # 0
    /\ fenceObjs[chainDep].gen < swapchain.gen
    /\ \E i \in Slots : At(fences, i) # 0 /\ i # image_i
                        /\ fenceObjs[At(fences, i)].gen < swapchain.gen

\* C33: the swapchain is recreated only in the step that handles a
\* redraw-requested event, before that tick's redraw has acquired anything,
\* and only if a resize was notified since the last recreation or the
\* preceding redraw returned true (its acquisition reported out-of-date or
\* suboptimal, or its submission out-of-date); a tick recreates at most once
\* (one generation, and the resize notifications are consumed), and a tick
\* with neither condition goes on to its redraw with the swapchain it had.
C33_RecreateOnlyWhenNeeded ==
    /\ [][(swapchain' # swapchain \/ recreated' # recreated) =>
             (pc = "idle" /\ ticks' = ticks + 1)]_vars
    /\ [][(swapchain' # swapchain) => recreated']_vars
    /\ [][(ticks' = ticks + 1 /\ recreated') =>
             /\ \/ resized
                \/ lastAcq \in {"outofdate", "suboptimal"}
                \/ lastSubmit = "outofdate"
             /\ lastAcq' = "none" /\ chain' = <<>>
             /\ swapchain'.gen <= swapchain.gen + 1
             /\ ~resized'
             /\ pc' = "acquire" \/ status' = "panicked"]_vars
    /\ [][(/\ ticks' = ticks + 1
           /\ ~resized
           /\ lastAcq \notin {"outofdate", "suboptimal"}
           /\ lastSubmit # "outofdate") =>
             /\ ~recreated'
             /\ swapchain' = swapchain
             /\ viewport' = viewport
             /\ command_buffers' = command_buffers
             /\ pc' = "acquire"]_vars

\* The second tick has recreated the swapchain after a redraw that returned
\* true, and its own redraw has not acquired an image yet.
C33_Witness ==
    /\ status = "running"
    /\ pc = "acquire"
    /\ recreated
    /\ app_recreate
    /\ ticks = 2
    /\ swapchain.gen = 2
    /\ lastAcq = "none"
    /\ ~resized

====
